---- MODULE Spec2Model ----
(***************************************************************************)
(* chitra/serve/model_server.py: ModelServer, API and create_api.          *)
(*                                                                         *)
(* Python objects live in a heap of DataProcessor objects addressed by     *)
(* reference, because the two default processors are class attributes      *)
(* shared by every API that uses them.  A value that flows through a       *)
(* handler is represented by the request input together with the chain of  *)
(* callables that were applied to it, so that f(g(x)) and g(f(x)) differ.  *)
(***************************************************************************)
EXTENDS Integers, Sequences, FiniteSets, TLC

VARIABLES heap, apis, last

vars == <<heap, apis, last>>

\* Number of API objects constructed in one process.
MaxApis == 2

(***************************************************************************)
(* Strings that the code transforms are sequences of characters.           *)
(***************************************************************************)
LowerChars ==
    <<"a", "b", "c", "d", "e", "f", "g", "h", "i", "j", "k", "l", "m",
      "n", "o", "p", "q", "r", "s", "t", "u", "v", "w", "x", "y", "z">>

UpperChars ==
    <<"A", "B", "C", "D", "E", "F", "G", "H", "I", "J", "K", "L", "M",
      "N", "O", "P", "Q", "R", "S", "T", "U", "V", "W", "X", "Y", "Z">>

\* The upper-case form of every character that has one.
UpperOf ==
    [c \in {LowerChars[i] : i \in DOMAIN LowerChars} |->
        UpperChars[CHOOSE i \in DOMAIN LowerChars : LowerChars[i] = c]]

\* str.upper()
upper(s) ==
    [i \in 1..Len(s) |-> IF s[i] \in DOMAIN UpperOf THEN UpperOf[s[i]] ELSE s[i]]

IMAGE_CLF ==
    <<"I", "M", "A", "G", "E", "-",
      "C", "L", "A", "S", "S", "I", "F", "I", "C", "A", "T", "I", "O", "N">>

OBJECT_DETECTION ==
    <<"O", "B", "J", "E", "C", "T", "-",
      "D", "E", "T", "E", "C", "T", "I", "O", "N">>

TXT_CLF ==
    <<"T", "E", "X", "T", "-",
      "C", "L", "A", "S", "S", "I", "F", "I", "C", "A", "T", "I", "O", "N">>

QNA ==
    <<"Q", "U", "E", "S", "T", "I", "O", "N", "-", "A", "N", "S">>

API_TYPES ==
    [VISION |-> <<IMAGE_CLF, OBJECT_DETECTION>>, NLP |-> <<TXT_CLF, QNA>>]

\* list(itertools.chain.from_iterable(API_TYPES.values()))
get_available_api_types ==
    API_TYPES.VISION \o API_TYPES.NLP

\* x in tuple
In(x, tuple) ==
    \E i \in DOMAIN tuple : tuple[i] = x

(***************************************************************************)
(* Callables.  A callable is a name and the keyword arguments bound into   *)
(* it; None is the callable that is not there.                             *)
(***************************************************************************)
NoKeywords == <<>>

Fn(name) ==
    [name |-> name, keywords |-> NoKeywords]

None == Fn("None")

Truthy(fn) ==
    fn # None

\* a or b
Or(a, b) ==
    IF Truthy(a) THEN a ELSE b

\* {**a, **b}
MergeKeywords(a, b) ==
    [k \in (DOMAIN a) \cup (DOMAIN b) |-> IF k \in DOMAIN b THEN b[k] ELSE a[k]]

\* functools.partial(fn, **kwargs)
partial(fn, kwargs) ==
    [name |-> fn.name, keywords |-> MergeKeywords(fn.keywords, kwargs)]

(***************************************************************************)
(* Values and calls.                                                       *)
(***************************************************************************)
Value(input) ==
    [input |-> input, applied |-> <<>>]

NoValue == Value(<<>>)

NoExc == [type |-> "None", api_type |-> <<>>, text |-> "", available |-> <<>>]

TypeError ==
    [type |-> "TypeError", api_type |-> <<>>,
     text |-> "'NoneType' object is not callable", available |-> <<>>]

\* One frame of a handler: the value so far, the calls made, the exception.
Frame(x) ==
    [x |-> x, calls |-> <<>>, raised |-> NoExc]

\* x = fn(x)
Call(frame, fn) ==
    IF frame.raised # NoExc THEN frame
    ELSE IF fn = None THEN [frame EXCEPT !.raised = TypeError]
    ELSE [x |-> [input |-> frame.x.input, applied |-> Append(frame.x.applied, fn)],
          calls |-> Append(frame.calls, fn),
          raised |-> NoExc]

(***************************************************************************)
(* data_processing.DataProcessor and DefaultProcessor.                     *)
(***************************************************************************)
DataProcessor(preprocess_fn, postprocess_fn) ==
    [preprocess_fn |-> preprocess_fn, postprocess_fn |-> postprocess_fn]

\* References of the two class attributes DefaultProcessor.vision and .nlp.
DefaultProcessor ==
    [vision |-> 1, nlp |-> 2]

NullRef == 0

InitialHeap ==
    <<DataProcessor(Fn("default_preprocess"), Fn("default_postprocess")),
      DataProcessor(Fn("nlp_preprocess"), Fn("nlp_postprocess"))>>

\* DataProcessor.preprocess(x)
preprocess(data_processor, frame) ==
    Call(frame, data_processor.preprocess_fn)

\* DataProcessor.postprocess(x)
postprocess(data_processor, frame) ==
    Call(frame, data_processor.postprocess_fn)

(***************************************************************************)
(* class ModelServer                                                       *)
(***************************************************************************)
UserWarning(api_type) ==
    [type |-> "UserWarning", api_type |-> api_type,
     text |-> " is not implemented! Available types are - ",
     available |-> get_available_api_types]

\* set_data_processor without its final return.
set_data_processor_unreturned(preprocess_fn, postprocess_fn) ==
    <<>>

\* The optional result is <<>> for None and <<obj>> for an object.
set_data_processor(preprocess_fn, postprocess_fn) ==
    IF Or(preprocess_fn, postprocess_fn) = None
    THEN <<>>
    ELSE <<DataProcessor(preprocess_fn, postprocess_fn)>>

\* ModelServer.__init__: the new object and the heap after the allocation.
ModelServer_init(api_type, model, preprocess_fn, postprocess_fn, h) ==
    LET made == set_data_processor(preprocess_fn, postprocess_fn)
        h1 == IF made = <<>> THEN h ELSE Append(h, made[1])
    IN [self |-> [api_type |-> upper(api_type),
                  model |-> model,
                  data_processor |-> IF made = <<>> THEN NullRef ELSE Len(h1)],
        heap |-> h1]

\* The case split with the vision test narrowed to the one routed tag.
default_processor_for_routed(api_type) ==
    IF api_type = IMAGE_CLF THEN DefaultProcessor.vision
    ELSE IF In(api_type, API_TYPES.NLP) THEN DefaultProcessor.nlp
    ELSE NullRef

\* The reference the case split selects; NullRef where the code raises.
default_processor_for(api_type) ==
    IF In(api_type, API_TYPES.VISION) THEN DefaultProcessor.vision
    ELSE IF In(api_type, API_TYPES.NLP) THEN DefaultProcessor.nlp
    ELSE NullRef

\* ModelServer.set_default_processor
set_default_processor(self) ==
    LET ref == default_processor_for(self.api_type)
    IN IF ref = NullRef
       THEN [raised |-> UserWarning(self.api_type), self |-> self, returned |-> NullRef]
       ELSE [raised |-> NoExc,
             self |-> [self EXCEPT !.data_processor = ref],
             returned |-> ref]

(***************************************************************************)
(* class API(ModelServer)                                                  *)
(***************************************************************************)
\* kwargs.get(key, default)
Get(kwargs, key, default) ==
    IF key \in DOMAIN kwargs THEN kwargs[key] ELSE default

\* The defaults of the three metadata keywords (the title and description
\* without their emoji).
DefaultDocsUrl == "/docs"
DefaultTitle == "Chitra Model Server"
DefaultDescription == "Goto Chitra Docs"

FastAPI(kwargs) ==
    [title |-> Get(kwargs, "title", DefaultTitle),
     description |-> Get(kwargs, "description", DefaultDescription),
     docs_url |-> Get(kwargs, "docs_url", DefaultDocsUrl)]

Route(path, endpoint) ==
    [method |-> "POST", path |-> path, endpoint |-> endpoint]

\* Route selection by category instead of by tag.
routes_for_category(api_type) ==
    IF In(api_type, API_TYPES.VISION)
    THEN {Route("/api/predict-image", "predict_image")}
    ELSE IF api_type = TXT_CLF THEN {Route("/api/predict-text", "predict_text")}
    ELSE IF api_type = QNA THEN {Route("/api/QnA", "predict_question_answer")}
    ELSE {}

\* The route the second half of setup_api registers for a tag.
routes_for(api_type) ==
    IF api_type = IMAGE_CLF THEN {Route("/api/predict-image", "predict_image")}
    ELSE IF api_type = TXT_CLF THEN {Route("/api/predict-text", "predict_text")}
    ELSE IF api_type = QNA THEN {Route("/api/QnA", "predict_question_answer")}
    ELSE {}

\* The first half of setup_api once a default processor was resolved: both
\* functions of the object behind ref are rebound, in place.
bind_default(h, ref, kwargs) ==
    LET h1 == [h EXCEPT ![ref].preprocess_fn = partial(h[ref].preprocess_fn, kwargs)]
    IN [h1 EXCEPT ![ref].postprocess_fn = partial(h1[ref].postprocess_fn, kwargs)]

\* API.setup_api: the exception, the object, the heap and the steps taken.
setup_api(self, kwargs, h) ==
    LET resolve == self.data_processor = NullRef
        r == set_default_processor(self)
    IN IF resolve /\ r.raised # NoExc
       THEN [raised |-> r.raised, self |-> self, heap |-> h,
             log |-> <<"set_default_processor">>]
       ELSE LET self1 == IF resolve THEN r.self ELSE self
                h1 == IF resolve THEN bind_default(h, r.returned, kwargs) ELSE h
                routes == routes_for(self1.api_type)
            IN [raised |-> NoExc,
                self |-> [self1 EXCEPT !.routes = routes],
                heap |-> h1,
                log |-> (IF resolve
                         THEN <<"set_default_processor", "partial", "partial">>
                         ELSE <<>>)
                        \o (IF routes = {} THEN <<>> ELSE <<"app.post">>)]

\* API.__init__
API_init(api_type, model, preprocess_fn, postprocess_fn, kwargs, h) ==
    LET base == ModelServer_init(api_type, model, preprocess_fn, postprocess_fn, h)
        self == [api_type |-> base.self.api_type,
                 model |-> base.self.model,
                 data_processor |-> base.self.data_processor,
                 routes |-> {}]
        done == setup_api(self, kwargs, base.heap)
    IN [raised |-> done.raised, self |-> done.self, heap |-> done.heap,
        log |-> done.log, app |-> FastAPI(kwargs)]

\* predict_image returning the model's result without the postprocess call.
predict_image_unprocessed(self, file, h) ==
    LET preprocess_fn == h[self.data_processor].preprocess_fn
        x1 == Call(Frame(Value(<<file>>)), preprocess_fn)
    IN Call(x1, self.model)

\* API.predict_image
predict_image(self, file, h) ==
    LET preprocess_fn == h[self.data_processor].preprocess_fn
        postprocess_fn == h[self.data_processor].postprocess_fn
        x1 == Call(Frame(Value(<<file>>)), preprocess_fn)
        x2 == Call(x1, self.model)
    IN Call(x2, postprocess_fn)

\* predict_text without the two tests of the processor's functions.
predict_text_unconditional(self, data, h) ==
    LET data_processor == h[self.data_processor]
        x1 == preprocess(data_processor, Frame(Value(<<data.query>>)))
        x2 == Call(x1, self.model)
    IN postprocess(data_processor, x2)

\* API.predict_text
predict_text(self, data, h) ==
    LET data_processor == h[self.data_processor]
        x0 == Frame(Value(<<data.query>>))
        x1 == IF Truthy(data_processor.preprocess_fn)
              THEN preprocess(data_processor, x0)
              ELSE x0
        x2 == Call(x1, self.model)
    IN IF Truthy(data_processor.postprocess_fn)
       THEN postprocess(data_processor, x2)
       ELSE x2

\* API.predict_question_answer
predict_question_answer(self, data, h) ==
    LET data_processor == h[self.data_processor]
        x0 == Frame(Value(<<data.query, data.question>>))
        x1 == IF Truthy(data_processor.preprocess_fn)
              THEN preprocess(data_processor, x0)
              ELSE x0
        x2 == Call(x1, self.model)
    IN IF Truthy(data_processor.postprocess_fn)
       THEN postprocess(data_processor, x2)
       ELSE x2

\* create_api's last step without the test of run.
run_if_always(run, log) ==
    Append(log, "uvicorn.run")

\* if run: api.run()
run_if(run, log) ==
    IF run THEN Append(log, "uvicorn.run") ELSE log

\* create_api
create_api(model, api_type, preprocess_fn, postprocess_fn, run, kwargs, h) ==
    LET api == API_init(api_type, model, preprocess_fn, postprocess_fn, kwargs, h)
    IN IF api.raised # NoExc
       THEN api
       ELSE [api EXCEPT !.log = run_if(run, api.log)]

(***************************************************************************)
(* The process: callers construct APIs through create_api, the web         *)
(* framework dispatches requests to the registered handlers.               *)
(***************************************************************************)
LowerImageClf ==
    <<"i", "m", "a", "g", "e", "-",
      "c", "l", "a", "s", "s", "i", "f", "i", "c", "a", "t", "i", "o", "n">>

MixedTxtClf ==
    <<"T", "e", "x", "t", "-",
      "C", "l", "a", "s", "s", "i", "f", "i", "c", "a", "t", "i", "o", "n">>

LowerOcr == <<"o", "c", "r">>

TagInputs ==
    {IMAGE_CLF, LowerImageClf, OBJECT_DETECTION, MixedTxtClf, QNA, LowerOcr}

Model == Fn("model")

PreprocessInputs == {None, Fn("user_preprocess")}

PostprocessInputs == {None, Fn("user_postprocess")}

KwargsInputs ==
    {<<>>, [image_shape |-> "224x224"], [title |-> "Demo"]}

Files == {"cat.png", "dog.png"}

Queries == {"hello", "bye"}

Questions == {"why"}

NoArgs ==
    [api_type |-> <<>>, preprocess_fn |-> None, postprocess_fn |-> None,
     kwargs |-> <<>>, run |-> FALSE]

\* What the last operation was given and what came of it.
Idle ==
    [op |-> "none", api |-> 0, args |-> NoArgs, raised |-> NoExc, log |-> <<>>,
     returned |-> NullRef, app |-> FastAPI(<<>>), input |-> <<>>, calls |-> <<>>, response |-> NoValue]

Init ==
    /\ heap = InitialHeap
    /\ apis = <<>>
    /\ last = Idle

CreateApi(api_type, preprocess_fn, postprocess_fn, run, kwargs) ==
    /\ Len(apis) < MaxApis
    /\ \E r \in {create_api(Model, api_type, preprocess_fn, postprocess_fn,
                            run, kwargs, heap)} :
       LET ok == r.raised = NoExc
       IN /\ heap' = r.heap
          /\ apis' = IF ok THEN Append(apis, r.self) ELSE apis
          /\ last' = [Idle EXCEPT
                        !.op = "create_api",
                        !.api = IF ok THEN Len(apis) + 1 ELSE 0,
                        !.args = [api_type |-> api_type,
                                  preprocess_fn |-> preprocess_fn,
                                  postprocess_fn |-> postprocess_fn,
                                  kwargs |-> kwargs,
                                  run |-> run],
                        !.raised = r.raised,
                        !.log = r.log,
                        !.app = r.app]

Respond(op, i, input, frame) ==
    /\ last' = [Idle EXCEPT
                  !.op = op,
                  !.api = i,
                  !.raised = frame.raised,
                  !.input = input,
                  !.calls = frame.calls,
                  !.response = IF frame.raised = NoExc THEN frame.x ELSE NoValue]
    /\ UNCHANGED <<heap, apis>>

PredictImage(i, file) ==
    /\ i \in DOMAIN apis
    /\ Route("/api/predict-image", "predict_image") \in apis[i].routes
    /\ Respond("predict_image", i, <<file>>, predict_image(apis[i], file, heap))

PredictText(i, query) ==
    /\ i \in DOMAIN apis
    /\ Route("/api/predict-text", "predict_text") \in apis[i].routes
    /\ Respond("predict_text", i, <<query>>,
               predict_text(apis[i], [query |-> query], heap))

PredictQuestionAnswer(i, query, question) ==
    /\ i \in DOMAIN apis
    /\ Route("/api/QnA", "predict_question_answer") \in apis[i].routes
    /\ Respond("predict_question_answer", i, <<query, question>>,
               predict_question_answer(apis[i],
                                       [query |-> query, question |-> question],
                                       heap))

\* A direct call of the public method on a constructed object.
SetDefaultProcessor(i) ==
    /\ i \in DOMAIN apis
    /\ LET r == set_default_processor(apis[i])
       IN /\ apis' = [apis EXCEPT ![i] = r.self]
          /\ last' = [Idle EXCEPT
                        !.op = "set_default_processor",
                        !.api = i,
                        !.raised = r.raised,
                        !.returned = r.returned]
    /\ UNCHANGED heap

Create ==
    \E api_type \in TagInputs, preprocess_fn \in PreprocessInputs,
       postprocess_fn \in PostprocessInputs, run \in BOOLEAN,
       kwargs \in KwargsInputs :
        CreateApi(api_type, preprocess_fn, postprocess_fn, run, kwargs)

RequestImage ==
    \E i \in 1..MaxApis, file \in Files : PredictImage(i, file)

RequestText ==
    \E i \in 1..MaxApis, query \in Queries : PredictText(i, query)

RequestQnA ==
    \E i \in 1..MaxApis, query \in Queries, question \in Questions :
        PredictQuestionAnswer(i, query, question)

Resolve ==
    \E i \in 1..MaxApis : SetDefaultProcessor(i)

Next ==
    \/ Create
    \/ RequestImage
    \/ RequestText
    \/ RequestQnA

Spec == Init /\ [][Next]_vars

NextServer ==
    \/ Create
    \/ Resolve

SpecServer == Init /\ [][NextServer]_vars

(***************************************************************************)
(* Vocabulary of the properties.                                           *)
(***************************************************************************)
Count(seq, e) ==
    Cardinality({k \in DOMAIN seq : seq[k] = e})

Applied(input, fns) ==
    [input |-> input, applied |-> fns]

Created == last.op = "create_api"

Constructed == Created /\ last.raised = NoExc

NoneSupplied ==
    last.args.preprocess_fn = None /\ last.args.postprocess_fn = None

BothSupplied ==
    last.args.preprocess_fn # None /\ last.args.postprocess_fn # None

Recognized(api_type) ==
    api_type \in {IMAGE_CLF, OBJECT_DETECTION, TXT_CLF, QNA}

TextOps == {"predict_text", "predict_question_answer"}

MetadataKeys == {"docs_url", "title", "description"}

Without(kwargs, keys) ==
    [k \in (DOMAIN kwargs) \ keys |-> kwargs[k]]

\* The calls a handler makes when it applies exactly the functions p holds.
HeldPipeline(p, model) ==
    (IF p.preprocess_fn # None THEN <<p.preprocess_fn>> ELSE <<>>)
    \o <<model>>
    \o (IF p.postprocess_fn # None THEN <<p.postprocess_fn>> ELSE <<>>)

(***************************************************************************)
(* C1                                                                      *)
(***************************************************************************)
\* C1: a request to /api/predict-image with file bytes B, on an API whose
\* processor holds both functions (the supplied pair, or the vision default
\* pair), calls preprocess, the model and postprocess once each in that
\* order and responds postprocess(model(preprocess(B))).
C1_PredictImagePipeline ==
    last.op = "predict_image" =>
        LET self == apis[last.api]
            p == heap[self.data_processor]
            chain == <<p.preprocess_fn, self.model, p.postprocess_fn>>
        IN /\ self.api_type = IMAGE_CLF
           /\ (p.preprocess_fn # None /\ p.postprocess_fn # None) =>
                /\ last.raised = NoExc
                /\ last.calls = chain
                /\ last.response = Applied(last.input, chain)

C1_Witness ==
    /\ last.op = "predict_image"
    /\ apis[last.api].data_processor = DefaultProcessor.vision
    /\ Len(last.response.applied) = 3
    /\ \E j \in DOMAIN apis :
        /\ apis[j].api_type = IMAGE_CLF
        /\ apis[j].data_processor \notin {DefaultProcessor.vision, DefaultProcessor.nlp}
        /\ heap[apis[j].data_processor].preprocess_fn # None
        /\ heap[apis[j].data_processor].postprocess_fn # None

(***************************************************************************)
(* C2                                                                      *)
(***************************************************************************)
\* C2: construction with a tag that, upper-cased, is none of the four
\* declared tags raises the error that enumerates the valid tags and returns
\* no object, whatever processing functions were supplied.
C2_UnrecognizedTagFails ==
    (Created /\ ~Recognized(upper(last.args.api_type))) =>
        /\ last.raised = UserWarning(upper(last.args.api_type))
        /\ last.api = 0

(***************************************************************************)
(* C3                                                                      *)
(***************************************************************************)
C3_Step ==
    /\ last'.op = "set_default_processor" =>
        LET i == last'.api
            t == apis[i].api_type
        IN /\ t \in {IMAGE_CLF, OBJECT_DETECTION} =>
                /\ last'.raised = NoExc
                /\ apis'[i].data_processor = DefaultProcessor.vision
                /\ last'.returned = DefaultProcessor.vision
           /\ t \in {TXT_CLF, QNA} =>
                /\ last'.raised = NoExc
                /\ apis'[i].data_processor = DefaultProcessor.nlp
                /\ last'.returned = DefaultProcessor.nlp
           /\ ~Recognized(t) =>
                /\ last'.raised.type = "UserWarning"
                /\ last'.raised.api_type = t
                /\ last'.raised.available =
                       <<IMAGE_CLF, OBJECT_DETECTION, TXT_CLF, QNA>>
                /\ last'.returned = NullRef
                /\ apis'[i].data_processor = apis[i].data_processor
                /\ heap' = heap
    /\ (/\ last'.op = "create_api"
        /\ last'.args.preprocess_fn = None
        /\ last'.args.postprocess_fn = None
        /\ ~Recognized(upper(last'.args.api_type))) =>
            /\ last'.raised.type = "UserWarning"
            /\ last'.raised.api_type = upper(last'.args.api_type)
            /\ last'.raised.available =
                   <<IMAGE_CLF, OBJECT_DETECTION, TXT_CLF, QNA>>
            /\ last'.api = 0
            /\ apis' = apis

\* C3: set_default_processor splits on the stored tag: the two vision tags
\* set and return the vision default, the two NLP tags the NLP default, any
\* other tag raises UserWarning naming the tag and listing the four valid
\* tags and leaves data_processor as it was; during construction the error
\* reaches the caller.
C3_DefaultProcessorCaseSplit == [][C3_Step]_vars

C3_Witness ==
    /\ last.op = "set_default_processor"
    /\ last.raised.type = "UserWarning"
    /\ \E j \in DOMAIN apis :
        /\ apis[j].api_type = OBJECT_DETECTION
        /\ apis[j].data_processor = DefaultProcessor.vision

(***************************************************************************)
(* C4                                                                      *)
(***************************************************************************)
\* C4: the prediction routes of a constructed API are fixed by its tag:
\* one route for image classification, text classification and question
\* answering, none for object detection (whose construction still
\* succeeds), never more than one and never another tag's route.
C4_RoutesFixedByTag ==
    /\ \A i \in DOMAIN apis :
        LET t == apis[i].api_type
            r == apis[i].routes
        IN /\ t = IMAGE_CLF => r = {Route("/api/predict-image", "predict_image")}
           /\ t = TXT_CLF => r = {Route("/api/predict-text", "predict_text")}
           /\ t = QNA => r = {Route("/api/QnA", "predict_question_answer")}
           /\ t = OBJECT_DETECTION => r = {}
           /\ ~Recognized(t) => r = {}
    /\ Created => Count(last.log, "app.post") <= 1
    /\ (Created /\ upper(last.args.api_type) = OBJECT_DETECTION) =>
        /\ last.raised = NoExc
        /\ Count(last.log, "app.post") = 0
        /\ last.api = Len(apis)

C4_Witness ==
    /\ Constructed
    /\ apis[last.api].api_type = OBJECT_DETECTION
    /\ apis[last.api].routes = {}
    /\ \E j \in DOMAIN apis : Cardinality(apis[j].routes) = 1

(***************************************************************************)
(* C5                                                                      *)
(***************************************************************************)
\* C5: each processing argument that is None gets the category default on
\* its own, so after construction with a recognized tag neither function of
\* the processor is unset and /api/predict-image never calls an unset
\* function.
C5_DefaultsAppliedIndependently ==
    /\ (Constructed /\ Recognized(upper(last.args.api_type))) =>
        LET p == heap[apis[last.api].data_processor]
        IN p.preprocess_fn # None /\ p.postprocess_fn # None
    /\ last.op = "predict_image" => last.raised # TypeError

(***************************************************************************)
(* C6                                                                      *)
(***************************************************************************)
\* C6 as stated: on an API built with no preprocess and no postprocess, the
\* text and question-answering handlers call the model alone and respond
\* model(input).
C6_UnsuppliedMeansModelOnly ==
    (/\ last.op \in TextOps
     /\ apis[last.api].data_processor = DefaultProcessor.nlp) =>
        /\ last.calls = <<apis[last.api].model>>
        /\ last.response = Applied(last.input, <<apis[last.api].model>>)

\* C6 as amended: the text and question-answering handlers apply exactly the
\* functions the API's processor holds, around one model call: a supplied
\* function is applied, the missing half of a half-supplied pair is skipped,
\* and on an API built with no functions the NLP default pair substituted at
\* construction is applied on both sides of the model call.
C6_TextHandlerAppliesHeldFunctions ==
    last.op \in TextOps =>
        LET self == apis[last.api]
            p == heap[self.data_processor]
            chain == HeldPipeline(p, self.model)
        IN /\ last.raised = NoExc
           /\ last.calls = chain
           /\ last.response = Applied(last.input, chain)
           /\ self.data_processor = DefaultProcessor.nlp =>
                /\ Len(last.calls) = 3
                /\ last.calls[1].name = InitialHeap[DefaultProcessor.nlp].preprocess_fn.name
                /\ last.calls[3].name = InitialHeap[DefaultProcessor.nlp].postprocess_fn.name
           /\ self.data_processor # DefaultProcessor.nlp =>
                \A k \in DOMAIN last.calls :
                    last.calls[k] \in (PreprocessInputs \cup PostprocessInputs
                                       \cup {self.model}) \ {None}

C6_Witness ==
    /\ last.op = "predict_text"
    /\ apis[last.api].data_processor = DefaultProcessor.nlp
    /\ Len(last.calls) = 3
    /\ \E j \in DOMAIN apis :
        /\ apis[j].api_type = TXT_CLF
        /\ apis[j].data_processor # DefaultProcessor.nlp
        /\ heap[apis[j].data_processor].postprocess_fn = None

(***************************************************************************)
(* C7                                                                      *)
(***************************************************************************)
C7_Step ==
    (/\ last'.op = "create_api"
     /\ last'.args.preprocess_fn # None
     /\ last'.args.postprocess_fn # None) =>
        /\ last'.raised = NoExc
        /\ Count(last'.log, "set_default_processor") = 0
        /\ Count(last'.log, "partial") = 0
        /\ heap'[DefaultProcessor.vision] = heap[DefaultProcessor.vision]
        /\ heap'[DefaultProcessor.nlp] = heap[DefaultProcessor.nlp]
        /\ apis'[last'.api].data_processor
               \notin {NullRef, DefaultProcessor.vision, DefaultProcessor.nlp}
        /\ heap'[apis'[last'.api].data_processor] =
               DataProcessor(last'.args.preprocess_fn, last'.args.postprocess_fn)

\* C7: constructing an API with both functions supplied does not resolve a
\* default processor: set_default_processor is not called, both default
\* processors keep their functions, nothing is partially applied, and the
\* API's processor holds exactly the two supplied functions.
C7_SuppliedPairLeavesDefaults == [][C7_Step]_vars

C7_Witness ==
    /\ Constructed
    /\ BothSupplied
    /\ last.args.kwargs # <<>>
    /\ heap[DefaultProcessor.vision] # InitialHeap[DefaultProcessor.vision]

(***************************************************************************)
(* C8                                                                      *)
(***************************************************************************)
\* C8: with no processor supplied, the keywords bound into the default
\* preprocess and postprocess are the same set, namely the constructor's
\* keywords without docs_url, title and description, and they are bound
\* before the route is registered.
C8_PassthroughKeywordsBound ==
    (Constructed /\ NoneSupplied) =>
        LET p == heap[apis[last.api].data_processor]
        IN /\ p.preprocess_fn.keywords = p.postprocess_fn.keywords
           /\ p.preprocess_fn.keywords = Without(last.args.kwargs, MetadataKeys)
           /\ \A j, k \in DOMAIN last.log :
                (last.log[j] = "partial" /\ last.log[k] = "app.post") => j < k

(***************************************************************************)
(* C9                                                                      *)
(***************************************************************************)
\* C9: create_api starts the server exactly when run is true and
\* construction succeeded, once, after every construction step; with run
\* false it returns the API without starting it; a failed construction
\* starts nothing and returns nothing.
C9_RunIffRequested ==
    Created =>
        /\ Count(last.log, "uvicorn.run") =
               (IF last.args.run /\ last.raised = NoExc THEN 1 ELSE 0)
        /\ \A k \in DOMAIN last.log :
               last.log[k] = "uvicorn.run" => k = Len(last.log)
        /\ last.raised = NoExc => last.api = Len(apis)
        /\ last.raised # NoExc => last.api = 0

C9_Witness ==
    /\ Constructed
    /\ last.args.run
    /\ Len(last.log) = 5
    /\ last.log[5] = "uvicorn.run"

(***************************************************************************)
(* C10                                                                     *)
(***************************************************************************)
\* C10: the keywords bound into the functions of an API built without
\* supplied processors are exactly the keywords of that API's own
\* construction, whatever was constructed before it.
C10_InstancesIndependent ==
    (Constructed /\ NoneSupplied) =>
        LET p == heap[apis[last.api].data_processor]
        IN /\ p.preprocess_fn.keywords = last.args.kwargs
           /\ p.postprocess_fn.keywords = last.args.kwargs

====
